---------------------------- MODULE Spec2Model ----------------------------
(***************************************************************************)
(* A model of the skip-tools filtering engine (class SkipTools) and of the *)
(* annotation parser it runs at construction.                              *)
(*                                                                         *)
(* Strings are sequences of one-character strings, so that toLowerCase,    *)
(* trim, split, includes and startsWith are computed character by          *)
(* character.  JavaScript values that may be undefined are tagged records: *)
(* [t |-> "undefined"], [t |-> "array", v |-> <<...>>],                    *)
(* [t |-> "number", v |-> n], [t |-> "object", ...].                       *)
(***************************************************************************)
EXTENDS Integers, Sequences, FiniteSets, TLC

VARIABLES
    tools,                      \* the Tool[] handed to the constructor
    phase,                      \* "new" | "ready" (constructed) | "failed" (constructor threw)
    error,                      \* the message of the Error the constructor threw, or <<>>
    parsedTools,                \* this.parsedTools
    lastProcessedMessageCount,  \* this.lastProcessedMessageCount
    options,                    \* the FilterOptions of the latest filter call
    previousLength,             \* history: messages.length of the call before the latest (0 if none)
    extractedQuery,             \* the latest call's extractedQuery
    keywordFiltered,            \* names of the latest call's filteredTools after the keyword step
    withDependencies,           \* names of the latest call's filteredTools after addDependencies
    result,                     \* the FilterResult the latest call returned, or what it threw
    returned,                   \* what the latest getAllTools / getCleanDescriptions call returned
    scans                       \* history: per message index, the calls whose window held it,
                                \* each as [length, after]: its messages.length and that of
                                \* the call before it

vars == <<tools, phase, error, parsedTools, lastProcessedMessageCount, options,
          previousLength, extractedQuery, keywordFiltered, withDependencies, result,
          returned, scans>>

---------------------------------------------------------------------------
(* JavaScript values *)

Undefined == [t |-> "undefined"]

Arr(s) == [t |-> "array", v |-> s]

Num(n) == [t |-> "number", v |-> n]

\* JavaScript truthiness of a tagged value (if (x), x && ..., x || ...).
Truthy(x) ==
    CASE x.t = "undefined" -> FALSE
      [] x.t = "number"    -> x.v # 0
      [] x.t = "string"    -> x.v # <<>>
      [] x.t = "null"      -> FALSE
      [] OTHER             -> TRUE

---------------------------------------------------------------------------
(* Strings *)

UpperCase == <<"A","B","C","D","E","F","G","H","I","J","K","L","M",
               "N","O","P","Q","R","S","T","U","V","W","X","Y","Z">>

LowerCase == <<"a","b","c","d","e","f","g","h","i","j","k","l","m",
               "n","o","p","q","r","s","t","u","v","w","x","y","z">>

Whitespace == {" ", "\t", "\n"}

LowerOf == [c \in {UpperCase[i] : i \in 1..Len(UpperCase)} |->
               LowerCase[CHOOSE i \in 1..Len(UpperCase) : UpperCase[i] = c]]

LowerChar(c) == IF c \in DOMAIN LowerOf THEN LowerOf[c] ELSE c

\* String.prototype.toLowerCase
toLowerCase(s) == [i \in 1..Len(s) |-> LowerChar(s[i])]

\* String.prototype.trim
trim(s) ==
    LET inked == {i \in 1..Len(s) : s[i] \notin Whitespace}
    IN  IF inked = {} THEN <<>>
        ELSE LET lo == CHOOSE i \in inked : \A j \in inked : i <= j
                 hi == CHOOSE i \in inked : \A j \in inked : i >= j
             IN  SubSeq(s, lo, hi)

\* String.prototype.startsWith
startsWith(s, prefix) ==
    /\ Len(prefix) <= Len(s)
    /\ SubSeq(s, 1, Len(prefix)) = prefix

\* String.prototype.includes
includes(s, part) ==
    \E i \in 0..(Len(s) - Len(part)) : SubSeq(s, i + 1, i + Len(part)) = part

\* String.prototype.split(/\s+/): the pieces between maximal runs of whitespace
\* (an empty piece at either end when the string starts or ends with whitespace).
RECURSIVE splitFrom(_, _, _)
splitFrom(s, i, piece) ==
    IF i > Len(s) THEN <<piece>>
    ELSE IF s[i] \in Whitespace
         THEN IF i > 1 /\ s[i - 1] \in Whitespace
              THEN splitFrom(s, i + 1, piece)
              ELSE <<piece>> \o splitFrom(s, i + 1, <<>>)
         ELSE splitFrom(s, i + 1, Append(piece, s[i]))

splitWhitespace(s) == splitFrom(s, 1, <<>>)

\* Array.prototype.join(' ') on an array of strings
RECURSIVE joinSpace(_)
joinSpace(parts) ==
    IF parts = <<>> THEN <<>>
    ELSE IF Len(parts) = 1 THEN parts[1]
    ELSE parts[1] \o <<" ">> \o joinSpace(Tail(parts))

\* Array.prototype.map
Map(f(_), s) == [i \in 1..Len(s) |-> f(s[i])]

\* The set of elements of an array
Range(s) == {s[i] : i \in 1..Len(s)}

---------------------------------------------------------------------------
(* parser.ts *)

Null == [t |-> "null"]

Str(s) == [t |-> "string", v |-> s]

\* A SkipConfig object: each field is Undefined or the value the YAML block gave.
SkipConfig(deps, kws) == [t |-> "object", depends_on |-> deps, keywords |-> kws]

\* A description is its prose and what SKIP_YAML_REGEX finds after it:
\*   [kind |-> "none"]                  the regex does not match
\*   [kind |-> "mapping", value |-> c]  yaml.load returns the object c
\*   [kind |-> "sequence", value |-> a] yaml.load returns the array a
\*   [kind |-> "invalid"]               yaml.load throws, or returns a scalar or
\*                                      nothing
NoBlock == [kind |-> "none"]

MappingBlock(c) == [kind |-> "mapping", value |-> c]

SequenceBlock(a) == [kind |-> "sequence", value |-> Arr(a)]

InvalidBlock == [kind |-> "invalid"]

Description(prose, block) == [prose |-> prose, block |-> block]

parseToolDescription(description) ==
    IF description.block.kind = "none"
    THEN [cleanDescription |-> description.prose, skipConfig |-> Undefined]
    ELSE IF description.block.kind \in {"mapping", "sequence"}
         THEN [cleanDescription |-> description.prose,
               skipConfig |-> description.block.value]
         ELSE [cleanDescription |-> description.prose, skipConfig |-> Undefined]

parseTool(tool) ==
    LET parsed == parseToolDescription(tool.description)
    IN  [name                |-> tool.name,
         description         |-> tool.description,
         originalDescription |-> tool.description,
         cleanDescription    |-> parsed.cleanDescription,
         skip                |-> IF Truthy(parsed.skipConfig)
                                 THEN parsed.skipConfig ELSE tool.skip]

parseTools(ts) == Map(parseTool, ts)

---------------------------------------------------------------------------
(* SkipTools: construction *)

\* tool.skip?.depends_on and tool.skip?.keywords
dependsOnOf(tool) == IF tool.skip.t = "object" THEN tool.skip.depends_on ELSE Undefined

keywordsOf(tool) == IF tool.skip.t = "object" THEN tool.skip.keywords ELSE Undefined

ToolNameSet(parsed) == {parsed[i].name : i \in 1..Len(parsed)}

DependencyError(toolName, depName) ==
    << "Tool \"", toolName, "\" depends on \"", depName,
       "\" which is not found in the provided tools list.",
       " Dependencies must reference other tools in the same list." >>

\* The TypeError of calling a method the receiver does not have.
TypeError(callee) == << "TypeError: ", callee, " is not a function" >>

\* Mutant of scanDependsOn: reports the last unresolved name, not the first.
RECURSIVE scanDependsOnLast(_, _, _, _)
scanDependsOnLast(toolName, deps, j, toolNames) ==
    IF j > Len(deps) THEN <<>>
    ELSE LET later == scanDependsOnLast(toolName, deps, j + 1, toolNames)
         IN  IF later # <<>> THEN later
             ELSE IF deps[j] \notin toolNames
                  THEN DependencyError(toolName, deps[j])
                  ELSE <<>>

\* The inner forEach: the error thrown at the first name of deps[j..] that is
\* no tool name, <<>> when the loop completes.
RECURSIVE scanDependsOn(_, _, _, _)
scanDependsOn(toolName, deps, j, toolNames) ==
    IF j > Len(deps) THEN <<>>
    ELSE IF deps[j] \notin toolNames
         THEN DependencyError(toolName, deps[j])
         ELSE scanDependsOn(toolName, deps, j + 1, toolNames)

\* The outer forEach over parsedTools[i..].
RECURSIVE scanTools(_, _, _)
scanTools(parsed, i, toolNames) ==
    IF i > Len(parsed) THEN <<>>
    ELSE LET deps   == dependsOnOf(parsed[i])
             thrown == IF ~Truthy(deps) THEN <<>>
                       ELSE IF deps.t = "array"
                            THEN scanDependsOn(parsed[i].name, deps.v, 1, toolNames)
                            ELSE TypeError("tool.skip.depends_on.forEach")
         IN  IF thrown # <<>> THEN thrown
             ELSE scanTools(parsed, i + 1, toolNames)

\* Mutant of validateDependencies: two tools that depend on each other are
\* rejected as well.
validateDependenciesAcyclic(parsed) ==
    LET deps(i) == IF Truthy(dependsOnOf(parsed[i])) THEN Range(dependsOnOf(parsed[i]).v)
                   ELSE {}
        mutual  == {p \in (1..Len(parsed)) \X (1..Len(parsed)) :
                       /\ p[1] # p[2]
                       /\ parsed[p[2]].name \in deps(p[1])
                       /\ parsed[p[1]].name \in deps(p[2])}
    IN  IF mutual # {}
        THEN LET p == CHOOSE q \in mutual : TRUE
             IN  DependencyError(parsed[p[1]].name, parsed[p[2]].name)
        ELSE scanTools(parsed, 1, ToolNameSet(parsed))

\* The Error validateDependencies throws, <<>> when it returns normally.
validateDependencies(parsed) == scanTools(parsed, 1, ToolNameSet(parsed))

---------------------------------------------------------------------------
(* SkipTools: filter *)

\* messages.slice(start)
sliceFrom(s, start) == SubSeq(s, start + 1, Len(s))

\* messages.slice(0, end) for end >= 0
slicePrefix(s, end) == SubSeq(s, 1, IF end < Len(s) THEN end ELSE Len(s))

\* Mutant of isNonToolMessage: assistant messages carrying tool calls are kept.
isNonToolMessageByRole(msg) == msg.role # "tool"

isNonToolMessage(msg) ==
    /\ msg.role # "tool"
    /\ ~(msg.role = "assistant" /\ Truthy(msg.tool_calls))

extractTextFromContent(content) ==
    IF content.t = "string" THEN content
    ELSE IF content.t = "array"
         THEN Str(joinSpace(Map(LAMBDA part : part.text,
                                SelectSeq(content.v, LAMBDA part : part.type = "text"))))
         ELSE Null

\* Mutant of extractQueryFromMessages: messagesProcessed counts the window.
extractQueryCountingWindow(messages, onlyNewMessages, lastCount) ==
    LET messagesToProcess == IF onlyNewMessages THEN sliceFrom(messages, lastCount)
                             ELSE messages
        nonToolMessages == SelectSeq(messagesToProcess, isNonToolMessage)
        withContent == SelectSeq(nonToolMessages, LAMBDA msg : Truthy(msg.content))
        texts       == Map(LAMBDA msg : extractTextFromContent(msg.content), withContent)
        nonBlank    == SelectSeq(texts, LAMBDA text : Truthy(text) /\ Len(trim(text.v)) > 0)
        textContent == joinSpace(Map(LAMBDA text : trim(text.v), nonBlank))
    IN  [query |-> textContent, messagesProcessed |-> Len(messagesToProcess)]

\* Mutant of extractQueryFromMessages: onlyNewMessages is ignored.
extractQueryFromAllMessages(messages, onlyNewMessages, lastCount) ==
    LET nonToolMessages == SelectSeq(messages, isNonToolMessage)
        withContent == SelectSeq(nonToolMessages, LAMBDA msg : Truthy(msg.content))
        texts       == Map(LAMBDA msg : extractTextFromContent(msg.content), withContent)
        nonBlank    == SelectSeq(texts, LAMBDA text : Truthy(text) /\ Len(trim(text.v)) > 0)
        textContent == joinSpace(Map(LAMBDA text : trim(text.v), nonBlank))
    IN  [query |-> textContent, messagesProcessed |-> Len(messages)]

\* Mutant of messagesToProcess: the window starts one message early.
messagesToProcessOverlapping(messages, onlyNewMessages, lastCount) ==
    IF onlyNewMessages /\ lastCount > 0 THEN sliceFrom(messages, lastCount - 1)
    ELSE messages

\* Mutant of messagesToProcess: a call without onlyNewMessages looks at the
\* messages after the preceding call's as well.
messagesToProcessAlwaysNew(messages, onlyNewMessages, lastCount) ==
    sliceFrom(messages, lastCount)

\* The window of messages a call scans.
messagesToProcess(messages, onlyNewMessages, lastCount) ==
    IF onlyNewMessages THEN sliceFrom(messages, lastCount) ELSE messages

extractQueryFromMessages(messages, onlyNewMessages, lastCount) ==
    LET window      == messagesToProcess(messages, onlyNewMessages, lastCount)
        nonToolMessages == SelectSeq(window, isNonToolMessage)
        withContent == SelectSeq(nonToolMessages, LAMBDA msg : Truthy(msg.content))
        texts       == Map(LAMBDA msg : extractTextFromContent(msg.content), withContent)
        nonBlank    == SelectSeq(texts, LAMBDA text : Truthy(text) /\ Len(trim(text.v)) > 0)
        textContent == joinSpace(Map(LAMBDA text : trim(text.v), nonBlank))
    IN  [query |-> textContent, messagesProcessed |-> Len(messages)]

\* Mutant of keywordMatches: only the whole-query substring rule.
keywordMatchesWholeQuery(keyword, queryLower, queryWords) ==
    includes(queryLower, toLowerCase(keyword))

\* One keyword against the query (the callback of keywords.some).
keywordMatches(keyword, queryLower, queryWords) ==
    LET keywordLower == toLowerCase(keyword)
    IN  \/ includes(queryLower, keywordLower)
        \/ \E w \in 1..Len(queryWords) :
              LET word == queryWords[w]
              IN  /\ Len(word) > 2
                  /\ \/ includes(keywordLower, word)
                     \/ includes(word, keywordLower)
                     \/ startsWith(keywordLower, word)
                     \/ startsWith(word, keywordLower)

\* Mutant of passesKeywords: a tool without keywords never passes.
passesKeywordsOnly(tool, queryLower, queryWords) ==
    LET keywords == keywordsOf(tool)
    IN  /\ Truthy(keywords)
        /\ \E k \in 1..Len(keywords.v) :
              keywordMatches(keywords.v[k], queryLower, queryWords)

\* The callback of tools.filter in filterByKeywords.
passesKeywords(tool, queryLower, queryWords) ==
    LET keywords == keywordsOf(tool)
    IN  IF ~Truthy(keywords) \/ Len(keywords.v) = 0 THEN TRUE
        ELSE \E k \in 1..Len(keywords.v) :
                keywordMatches(keywords.v[k], queryLower, queryWords)

\* The TypeError the callback of tools.filter raises on the first tool whose
\* keywords is truthy and has no method some, <<>> when there is none.
keywordsThrown(ts) ==
    IF \E i \in 1..Len(ts) : Truthy(keywordsOf(ts[i])) /\ keywordsOf(ts[i]).t # "array"
    THEN TypeError("tool.skip.keywords.some")
    ELSE <<>>

\* The list filterByKeywords returns when its callback does not throw.
filterByKeywords(ts, query) ==
    LET queryLower == toLowerCase(query)
        queryWords == SelectSeq(splitWhitespace(queryLower), LAMBDA word : Len(word) > 2)
    IN  SelectSeq(ts, LAMBDA tool : passesKeywords(tool, queryLower, queryWords))

\* The names the two forEach loops of addDependencies put into resultTools.
dependencyNames(filteredTools) ==
    UNION {IF Truthy(dependsOnOf(filteredTools[i]))
           THEN Range(dependsOnOf(filteredTools[i]).v) ELSE {}
           : i \in 1..Len(filteredTools)}

\* Mutant of addDependencies: the dependency loop is missing.
addDependenciesNone(filteredTools, parsed) ==
    SelectSeq(parsed, LAMBDA tool : tool.name \in ToolNameSet(filteredTools))

\* Mutant of addDependencies: dependencies of dependencies are added too.
addDependenciesTwoHops(filteredTools, parsed) ==
    LET direct == ToolNameSet(filteredTools) \cup dependencyNames(filteredTools)
        once   == SelectSeq(parsed, LAMBDA tool : tool.name \in direct)
        twice  == direct \cup dependencyNames(once)
    IN  SelectSeq(parsed, LAMBDA tool : tool.name \in twice)

\* Mutant of addDependencies: the dependencies are appended after the
\* filtered tools instead of being put at their construction-time places.
addDependenciesAppended(filteredTools, parsed) ==
    LET added == dependencyNames(filteredTools) \ ToolNameSet(filteredTools)
    IN  filteredTools \o SelectSeq(parsed, LAMBDA tool : tool.name \in added)

\* Mutant of addDependencies: the dependencies are appended without looking
\* whether they are in the list already.
addDependenciesConcat(filteredTools, parsed) ==
    filteredTools \o SelectSeq(parsed, LAMBDA tool : tool.name \in dependencyNames(filteredTools))

\* Mutant of addDependencies: only the first depends_on entry of each tool is
\* added.
addDependenciesFirstEntry(filteredTools, parsed) ==
    LET firstNames == UNION {IF Truthy(dependsOnOf(filteredTools[i]))
                                /\ Len(dependsOnOf(filteredTools[i]).v) > 0
                             THEN {dependsOnOf(filteredTools[i]).v[1]} ELSE {}
                             : i \in 1..Len(filteredTools)}
        resultTools == ToolNameSet(filteredTools) \cup firstNames
    IN  SelectSeq(parsed, LAMBDA tool : tool.name \in resultTools)

addDependencies(filteredTools, parsed) ==
    LET resultTools == ToolNameSet(filteredTools) \cup dependencyNames(filteredTools)
    IN  SelectSeq(parsed, LAMBDA tool : tool.name \in resultTools)

\* reasons, before join(', '); lastCount is this.lastProcessedMessageCount as
\* the method reads it, after filter has already updated it.
generateFilterReason(opts, resultCount, lastCount) ==
    LET n == Len(opts.messages)
        messageScope == IF opts.onlyNewMessages THEN "new" ELSE "all"
        messageCount == IF opts.onlyNewMessages
                        THEN (IF n - lastCount > 0 THEN n - lastCount ELSE 0)
                        ELSE n
        filtered == IF n > 0
                    THEN << <<"filtered by keywords from ", messageCount, " ", messageScope,
                              " messages, dependencies added">> >>
                    ELSE <<>>
        limited == IF Truthy(opts.maxTools) /\ resultCount = opts.maxTools.v
                   THEN << <<"limited to ", opts.maxTools.v, " tools">> >>
                   ELSE <<>>
        reasons == filtered \o limited
    IN  IF Len(reasons) > 0 THEN reasons ELSE << <<"no filters applied">> >>

\* Mutant of limitTools: keeps the last maxTools entries.
limitToolsLast(filteredTools, maxTools) ==
    IF Truthy(maxTools) /\ Len(filteredTools) > maxTools.v
    THEN SubSeq(filteredTools, Len(filteredTools) - maxTools.v + 1, Len(filteredTools))
    ELSE filteredTools

\* The maxTools step of filter.
limitTools(filteredTools, maxTools) ==
    IF Truthy(maxTools) /\ Len(filteredTools) > maxTools.v
    THEN slicePrefix(filteredTools, maxTools.v)
    ELSE filteredTools

\* Mutant of keywordStep: keyword matching runs on the empty query too.
keywordStepAlways(parsed, query) == filterByKeywords(parsed, query)

\* The keyword step of filter: skipped when the query is the empty string.
keywordStep(parsed, query) ==
    IF query # <<>> THEN filterByKeywords(parsed, query) ELSE parsed

\* The TypeError the keyword step throws, <<>> when it completes.
keywordStepThrown(parsed, query) ==
    IF query # <<>> THEN keywordsThrown(parsed) ELSE <<>>

\* Mutant of processedCount: the count never goes down.
processedCountMonotone(messages, lastCount) ==
    IF Len(messages) > lastCount THEN Len(messages) ELSE lastCount

\* this.lastProcessedMessageCount = messages.length
processedCount(messages, lastCount) == Len(messages)

\* getAllTools(): a copy of this.parsedTools
getAllTools(parsed) == parsed

\* getCleanDescriptions()
getCleanDescriptions(parsed) ==
    Map(LAMBDA tool : [name |-> tool.name, description |-> tool.cleanDescription], parsed)

---------------------------------------------------------------------------
(* Inputs *)

\* Tool names are unique (Tool.name identifies the tool); the tool at position
\* i of a list is named ToolNames[i].
ToolNames == <<"tool_a", "tool_b", "tool_c">>

\* Names that no tool of any list carries.
MissingNames == {"missing_x", "missing_y"}

\* The depends_on entries of all tools of one list together.
MaxEdges == 2

KeywordFile == <<"f","i","l","e">>

KeywordWeb == <<"W","e","b">>

KeywordChoices == {Undefined, Arr(<<KeywordFile>>), Arr(<<KeywordWeb>>)}

\* The sequences of at most k distinct elements of S.
RECURSIVE DistinctSeqs(_, _)
DistinctSeqs(S, k) ==
    IF k = 0 THEN {<<>>}
    ELSE {<<>>} \cup UNION {{<<x>> \o rest : rest \in DistinctSeqs(S \ {x}, k - 1)} : x \in S}

\* A tool as the caller writes it: the configuration sits in the description's
\* skip: block; a tool with neither field has no block.
MakeTool(name, deps, kws) ==
    [name        |-> name,
     description |-> Description(name,
                        IF deps = <<>> /\ kws = Undefined THEN NoBlock
                        ELSE MappingBlock(SkipConfig(IF deps = <<>> THEN Undefined
                                                     ELSE Arr(deps), kws))),
     skip        |-> Undefined]

\* The lists of tools ToolNames[i..n] whose depends_on entries, drawn from
\* depNames (the tool's own name apart), number at most budget in total.
RECURSIVE ToolListsFrom(_, _, _, _)
ToolListsFrom(n, i, depNames, budget) ==
    IF i > n THEN {<<>>}
    ELSE UNION {{<<MakeTool(ToolNames[i], deps, kws)>> \o rest :
                    kws \in KeywordChoices,
                    rest \in ToolListsFrom(n, i + 1, depNames, budget - Len(deps))}
                : deps \in DistinctSeqs(depNames \ {ToolNames[i]}, budget)}

ToolLists(maxTools, budget) ==
    UNION {ToolListsFrom(n, 1, {ToolNames[i] : i \in 1..n} \cup MissingNames, budget)
           : n \in 0..maxTools}

TextReadFiles == <<"r","e","a","d"," ","F","i","l","e","s">>

TextWeb == <<"w","e","b">>

TextHi == <<"h","i">>

UserMessage(text) == [role |-> "user", content |-> Str(text), tool_calls |-> Undefined]

\* Conversations of at most one user message.
ShortHistories == {<<>>, <<UserMessage(TextReadFiles)>>, <<UserMessage(TextHi)>>}

\* maxTools is absent or a positive integer.
ShortMaxTools == {Undefined, Num(1), Num(2)}

\* The messages longer conversations are made of: a user message in parts, a
\* tool response, an assistant message carrying tool calls, a blank user message.
PartsMessage ==
    [role |-> "user",
     content |-> Arr(<< [type |-> "text", text |-> <<"r","e","a","d">>],
                        [type |-> "image_url", text |-> <<"w","e","b">>],
                        [type |-> "text", text |-> <<"F","i","l","e","s">>] >>),
     tool_calls |-> Undefined]

ToolResponse == [role |-> "tool", content |-> Str(TextWeb), tool_calls |-> Undefined]

AssistantToolCall ==
    [role |-> "assistant", content |-> Str(TextWeb), tool_calls |-> Arr(<<"call_1">>)]

BlankMessage == [role |-> "user", content |-> Str(<<" ">>), tool_calls |-> Undefined]

MessagePool == {PartsMessage, ToolResponse, AssistantToolCall, BlankMessage}

\* The longest conversation.
MaxMessages == 2

RECURSIVE SeqsUpTo(_, _)
SeqsUpTo(S, k) ==
    IF k = 0 THEN {<<>>}
    ELSE {<<>>} \cup {<<x>> \o rest : x \in S, rest \in SeqsUpTo(S, k - 1)}

Histories == SeqsUpTo(MessagePool, MaxMessages)

ConversationMaxTools == {Undefined, Num(1)}

\* The engines the longer conversations run against: a keyword tool before a
\* tool without configuration; a tool with an empty keyword list before a
\* keyword tool; a keyword tool before a tool that declares only depends_on; a
\* tool whose depends_on names no tool (construction throws).
ConversationTools ==
    { << MakeTool(ToolNames[1], <<>>, Arr(<<KeywordFile>>)),
         MakeTool(ToolNames[2], <<>>, Undefined) >>,
      << MakeTool(ToolNames[1], <<>>, Arr(<<>>)),
         MakeTool(ToolNames[2], <<>>, Arr(<<KeywordWeb>>)) >>,
      << MakeTool(ToolNames[1], <<>>, Arr(<<KeywordWeb>>)),
         MakeTool(ToolNames[2], <<ToolNames[1]>>, Undefined) >>,
      << MakeTool(ToolNames[1], <<"missing_x">>, Arr(<<KeywordFile>>)) >> }

\* Configurations whose depends_on or keywords is no array: the YAML scalars
\* `tool_b`, `file`, 1 and 0 where a list is expected.
ShapeDependsOn ==
    {Undefined, Arr(<<ToolNames[2]>>), Str(<<"t","o","o","l","_","b">>), Num(1), Num(0)}

ShapeKeywords == {Undefined, Arr(<<KeywordFile>>), Str(KeywordFile), Num(1), Num(0)}

\* What a description can end in: no block, a block that does not parse, a
\* block that is a YAML list, a mapping with fields of any of the shapes above.
ShapeBlocks ==
    {NoBlock, InvalidBlock, SequenceBlock(<<KeywordFile>>)}
        \cup {MappingBlock(SkipConfig(deps, kws)) : deps \in ShapeDependsOn,
                                                    kws \in ShapeKeywords}

\* Tool.skip as the caller supplies it directly: absent, or keywords: ["Web"].
DirectConfigs == {Undefined, SkipConfig(Undefined, Arr(<<KeywordWeb>>))}

\* The first tool carries the block and the direct configuration under study,
\* the second tool has no configuration.
ShapeTools ==
    { << [name        |-> ToolNames[1],
          description |-> Description(ToolNames[1], block),
          skip        |-> skip],
         MakeTool(ToolNames[2], <<>>, Undefined) >>
      : block \in ShapeBlocks, skip \in DirectConfigs }

\* Conversations of user messages and tool responses.
AccessorHistories == SeqsUpTo({UserMessage(TextReadFiles), ToolResponse}, MaxMessages)

\* The keywords of the matching study: a letter, a short word, two words, a
\* long word, an upper-case word, a word the queries never contain.
MatchingKeywords ==
    { <<"b">>, <<"a","b">>, <<"a"," ","b">>, <<"a","b","a","b">>, <<"B","A","B">>,
      <<"b","b","a","a">> }

\* The longest keyword list of a tool of the matching study.
MaxKeywords == 2

MatchingTools ==
    { << MakeTool(ToolNames[1], <<>>, Arr(kws)) >>
      : kws \in DistinctSeqs(MatchingKeywords, MaxKeywords) }

QueryAlphabet == {"a", "B", " "}

\* The longest message text of the matching study.
MaxQueryLen == 6

QueryTexts == SeqsUpTo(QueryAlphabet, MaxQueryLen)

---------------------------------------------------------------------------
(* The state machine *)

NoCall == [called |-> FALSE]

FilterOptions(messages, maxTools, onlyNewMessages) ==
    [called |-> TRUE, messages |-> messages, maxTools |-> maxTools,
     onlyNewMessages |-> onlyNewMessages]

InitWith(inputs) ==
    /\ tools \in inputs
    /\ phase = "new"
    /\ error = <<>>
    /\ parsedTools = <<>>
    /\ lastProcessedMessageCount = 0
    /\ options = NoCall
    /\ previousLength = 0
    /\ extractedQuery = <<>>
    /\ keywordFiltered = <<>>
    /\ withDependencies = <<>>
    /\ result = Undefined
    /\ returned = Undefined
    /\ scans = <<>>

Init == InitWith(ToolLists(Len(ToolNames), MaxEdges))

\* new SkipTools(tools)
Construct ==
    /\ phase = "new"
    /\ LET parsed == parseTools(tools)
           thrown == validateDependencies(parsed)
       IN  IF thrown = <<>>
           THEN /\ phase' = "ready"
                /\ parsedTools' = parsed
                /\ error' = <<>>
           ELSE /\ phase' = "failed"
                /\ parsedTools' = <<>>
                /\ error' = thrown
    /\ UNCHANGED <<tools, lastProcessedMessageCount, options, previousLength,
                   extractedQuery, keywordFiltered, withDependencies, result, returned,
                   scans>>

\* What a filter call that threw leaves in result.
Thrown(err) == [thrown |-> err]

\* skipTools.filter({messages, maxTools, onlyNewMessages})
Filter(messages, maxTools, onlyNewMessages) ==
    /\ phase = "ready"
    /\ LET opts      == FilterOptions(messages, maxTools, onlyNewMessages)
           extracted == extractQueryFromMessages(messages, onlyNewMessages,
                                                 lastProcessedMessageCount)
           count     == processedCount(messages, lastProcessedMessageCount)
           thrown    == keywordStepThrown(parsedTools, extracted.query)
           matched   == keywordStep(parsedTools, extracted.query)
           expanded  == addDependencies(matched, parsedTools)
           limited   == limitTools(expanded, maxTools)
       IN  /\ options' = opts
           /\ extractedQuery' = extracted.query
           /\ lastProcessedMessageCount' = count
           /\ IF thrown # <<>>
              THEN /\ keywordFiltered' = <<>>
                   /\ withDependencies' = <<>>
                   /\ result' = Thrown(thrown)
              ELSE /\ keywordFiltered' = Map(LAMBDA tool : tool.name, matched)
                   /\ withDependencies' = Map(LAMBDA tool : tool.name, expanded)
                   /\ result' = [tools              |-> limited,
                                 totalOriginalCount |-> Len(parsedTools),
                                 filteredCount      |-> Len(limited),
                                 reason             |-> generateFilterReason(opts, Len(limited),
                                                                             count),
                                 messagesProcessed  |-> extracted.messagesProcessed]
    /\ previousLength' = IF options.called THEN Len(options.messages) ELSE 0
    /\ UNCHANGED <<tools, phase, error, parsedTools, returned>>

\* skipTools.getAllTools()
GetAllTools ==
    /\ phase = "ready"
    /\ returned' = [call |-> "getAllTools", value |-> getAllTools(parsedTools)]
    /\ UNCHANGED <<tools, phase, error, parsedTools, lastProcessedMessageCount, options,
                   previousLength, extractedQuery, keywordFiltered, withDependencies,
                   result, scans>>

\* skipTools.getCleanDescriptions()
GetCleanDescriptions ==
    /\ phase = "ready"
    /\ returned' = [call |-> "getCleanDescriptions",
                    value |-> getCleanDescriptions(parsedTools)]
    /\ UNCHANGED <<tools, phase, error, parsedTools, lastProcessedMessageCount, options,
                   previousLength, extractedQuery, keywordFiltered, withDependencies,
                   result, scans>>

\* Every engine, conversations of at most one message.
FilterShort ==
    /\ \E messages \in ShortHistories, maxTools \in ShortMaxTools, onlyNewMessages \in BOOLEAN :
          Filter(messages, maxTools, onlyNewMessages)
    /\ UNCHANGED scans

Next == Construct \/ FilterShort

Spec == Init /\ [][Next]_vars

\* A few engines, every conversation of at most MaxMessages messages.
InitConversation == InitWith(ConversationTools)

FilterConversation ==
    /\ \E messages \in Histories, maxTools \in ConversationMaxTools, onlyNewMessages \in BOOLEAN :
          Filter(messages, maxTools, onlyNewMessages)
    /\ UNCHANGED scans

NextConversation == Construct \/ FilterConversation

SpecConversation == InitConversation /\ [][NextConversation]_vars

\* Engines whose first tool has a malformed block or fields of the wrong
\* shape, conversations of at most one message.
InitShapes == InitWith(ShapeTools)

NextShapes == Construct \/ FilterShort

SpecShapes == InitShapes /\ [][NextShapes]_vars

\* A few engines, filter calls interleaved with the two read-only accessors.
FilterAccessors ==
    /\ \E messages \in AccessorHistories, maxTools \in ConversationMaxTools,
          onlyNewMessages \in BOOLEAN :
          Filter(messages, maxTools, onlyNewMessages)
    /\ UNCHANGED scans

NextAccessors == Construct \/ FilterAccessors \/ GetAllTools \/ GetCleanDescriptions

SpecAccessors == InitConversation /\ [][NextAccessors]_vars

\* One tool with up to MaxKeywords keywords; the first filter call of a fresh
\* engine, on one user message of at most MaxQueryLen characters.
InitMatching == InitWith(MatchingTools)

FilterFirstQuery ==
    /\ ~options.called
    /\ \E text \in QueryTexts : Filter(<<UserMessage(text)>>, Undefined, FALSE)
    /\ UNCHANGED scans

NextMatching == Construct \/ FilterFirstQuery

SpecMatching == InitMatching /\ [][NextMatching]_vars

\* A few engines; the conversation only grows, by appending up to MaxMessages
\* messages in all, and every call passes onlyNewMessages: true (the
\* ConversationManager of the README).  scans lists, per message index, the
\* calls whose window held that message.
FilterAppended ==
    \E more \in Histories, maxTools \in ConversationMaxTools :
        LET history  == IF options.called THEN options.messages ELSE <<>>
            messages == history \o more
            window   == messagesToProcess(messages, TRUE, lastProcessedMessageCount)
            first    == Len(messages) - Len(window) + 1
        IN  /\ Len(messages) <= MaxMessages
            /\ Filter(messages, maxTools, TRUE)
            /\ scans' = [i \in 1..Len(messages) |->
                             (IF i <= Len(scans) THEN scans[i] ELSE <<>>)
                                 \o (IF i >= first
                                     THEN <<[length |-> Len(messages), after |-> Len(history)]>>
                                     ELSE <<>>)]

NextAppended == Construct \/ FilterAppended

SpecAppended == InitConversation /\ [][NextAppended]_vars

---------------------------------------------------------------------------
(* Properties *)

\* A filter call has returned.
Called == phase = "ready" /\ options.called

Names(ts) == Map(LAMBDA tool : tool.name, ts)

ResultNames == Range(Names(result.tools))

\* The depends_on a tool of the engine declares, as a sequence (<<>> if none).
DeclaredDependsOn(tool) ==
    IF Truthy(dependsOnOf(tool)) THEN dependsOnOf(tool).v ELSE <<>>

\* The tool of the engine that carries a name.
ToolNamed(name) == parsedTools[CHOOSE i \in 1..Len(parsedTools) : parsedTools[i].name = name]

\* Whether a tool of the engine has no keywords.
KeywordLess(tool) == ~Truthy(keywordsOf(tool)) \/ Len(keywordsOf(tool).v) = 0

\* The latest call cut nothing off: maxTools is absent or not smaller than the
\* list after keyword matching and dependency expansion.
NotTruncated ==
    ~Truthy(options.maxTools) \/ Len(withDependencies) <= options.maxTools.v

\* The depends_on the caller's i-th tool resolves to, and whether its j-th
\* entry names no tool of the input list.
InputDependsOn(i) == DeclaredDependsOn(parseTool(tools[i]))

Unresolved(i, j) == InputDependsOn(i)[j] \notin {tools[k].name : k \in 1..Len(tools)}

UnresolvedPairs ==
    {p \in (1..Len(tools)) \X (1..MaxEdges + 1) :
        p[2] <= Len(InputDependsOn(p[1])) /\ Unresolved(p[1], p[2])}

ScansBefore(p, q) == p[1] < q[1] \/ (p[1] = q[1] /\ p[2] < q[2])

\* C1: construction succeeds exactly when every depends_on name is the name of
\* a tool of the input list; otherwise the constructor throws, there is no
\* engine, and the error starts 'Tool "X" depends on "Y" which is not found in
\* the provided tools list.' for the first unresolved pair in scan order.
C1_ConstructionValidates ==
    phase # "new" =>
        /\ (phase = "ready") <=> (UnresolvedPairs = {})
        /\ phase = "ready" => error = <<>> /\ Len(parsedTools) = Len(tools)
        /\ phase = "failed" =>
              /\ parsedTools = <<>>
              /\ \E p \in UnresolvedPairs :
                    /\ \A q \in UnresolvedPairs : q = p \/ ScansBefore(p, q)
                    /\ SubSeq(error, 1, 5) =
                          << "Tool \"", tools[p[1]].name, "\" depends on \"",
                             InputDependsOn(p[1])[p[2]],
                             "\" which is not found in the provided tools list." >>

\* C1 witness: construction threw on a tool, not the first of the list, that
\* declares two unresolved names.
C1_Witness ==
    /\ phase = "failed"
    /\ \E i \in 2..Len(tools) :
          /\ Len(InputDependsOn(i)) = 2
          /\ Unresolved(i, 1) /\ Unresolved(i, 2)
          /\ error[4] = InputDependsOn(i)[1]

\* C2 as stated: in every filter call (here: every one whose query is not
\* empty, so that keyword matching ran), a tool B that passed keyword matching
\* and every A in B's depends_on are both in result.tools.
C2_Original ==
    (Called /\ extractedQuery # <<>>) =>
        \A b \in Range(keywordFiltered) :
            \A a \in Range(DeclaredDependsOn(ToolNamed(b))) :
                a \in ResultNames /\ b \in ResultNames

\* C2 amended: the same, in every filter call in which maxTools cuts nothing
\* off (maxTools absent, or not smaller than the list after expansion).
C2_DependencyIncluded ==
    (Called /\ NotTruncated) =>
        \A b \in Range(keywordFiltered) :
            \A a \in Range(DeclaredDependsOn(ToolNamed(b))) :
                a \in ResultNames /\ b \in ResultNames

\* C2 witness: B matched the query, A did not, B depends on A, both returned.
C2_Witness ==
    /\ Called /\ NotTruncated /\ extractedQuery # <<>>
    /\ \E b \in Range(keywordFiltered) :
          \E a \in Range(DeclaredDependsOn(ToolNamed(b))) :
              /\ a \notin Range(keywordFiltered)
              /\ ~KeywordLess(ToolNamed(a))
              /\ a \in ResultNames /\ b \in ResultNames

\* C3: with a non-empty query, every tool of result.tools passed keyword
\* matching itself or is named in depends_on of a tool that passed; a tool
\* reached only over two or more hops is not in the result.
C3_OneHop ==
    (Called /\ extractedQuery # <<>>) =>
        \A t \in ResultNames :
            \/ t \in Range(keywordFiltered)
            \/ \E b \in Range(keywordFiltered) : t \in Range(DeclaredDependsOn(ToolNamed(b)))

\* C3 witness: B matched and depends on A, A depends on A2; A is returned, A2
\* is not although nothing was cut off.
C3_Witness ==
    /\ Called /\ NotTruncated /\ extractedQuery # <<>>
    /\ \E b \in Range(keywordFiltered) :
          \E a \in Range(DeclaredDependsOn(ToolNamed(b))) :
              /\ a \notin Range(keywordFiltered)
              /\ a \in ResultNames
              /\ \E a2 \in Range(DeclaredDependsOn(ToolNamed(a))) :
                    a2 \notin ResultNames /\ a2 # b

\* C4 as stated: a tool without keywords is in result.tools of every filter
\* call whose query is not empty, whatever the call's other options.
C4_Original ==
    (Called /\ extractedQuery # <<>>) =>
        \A i \in 1..Len(parsedTools) :
            KeywordLess(parsedTools[i]) => parsedTools[i].name \in ResultNames

\* C4 amended: a tool without keywords passes keyword matching in every filter
\* call whose query is not empty, and is in result.tools whenever maxTools cuts
\* nothing off.
C4_KeywordLessIncluded ==
    (Called /\ extractedQuery # <<>>) =>
        \A i \in 1..Len(parsedTools) :
            KeywordLess(parsedTools[i]) =>
                /\ parsedTools[i].name \in Range(keywordFiltered)
                /\ NotTruncated => parsedTools[i].name \in ResultNames

\* C4 witness: a tool with an empty keyword list is returned for a query that
\* filters another tool out.
C4_Witness ==
    /\ Called /\ extractedQuery # <<>> /\ NotTruncated
    /\ \E i \in 1..Len(parsedTools) :
          /\ keywordsOf(parsedTools[i]) = Arr(<<>>)
          /\ parsedTools[i].name \in ResultNames
    /\ \E j \in 1..Len(parsedTools) : parsedTools[j].name \notin ResultNames

\* The position of a tool name in the list passed to the constructor.
InputPosition(name) == CHOOSE k \in 1..Len(tools) : tools[k].name = name

\* C5: result.tools is in construction order: a subsequence of the list
\* passed to the constructor.
C5_ConstructionOrder ==
    Called =>
        /\ \A i \in 1..Len(result.tools) : result.tools[i].name \in Range(Names(tools))
        /\ \A i, j \in 1..Len(result.tools) :
              i < j => InputPosition(result.tools[i].name) < InputPosition(result.tools[j].name)

\* C5 witness: a later tool matched and pulled in an earlier tool that did not
\* match; the dependency stands before it in the result.
C5_Witness ==
    /\ Called /\ extractedQuery # <<>>
    /\ \E i, j \in 1..Len(result.tools) :
          /\ i < j
          /\ result.tools[j].name \in Range(keywordFiltered)
          /\ result.tools[i].name \notin Range(keywordFiltered)
          /\ result.tools[i].name \in Range(DeclaredDependsOn(result.tools[j]))

\* C6: with maxTools set, result.tools is the prefix of the list after keyword
\* matching and dependency expansion, of length min(maxTools, that length).
C6_PrefixTruncation ==
    (Called /\ options.maxTools # Undefined) =>
        LET expected == IF options.maxTools.v < Len(withDependencies)
                        THEN options.maxTools.v ELSE Len(withDependencies)
        IN  /\ Len(result.tools) = expected
            /\ Names(result.tools) = SubSeq(withDependencies, 1, expected)
            /\ result.filteredCount = expected

\* C6 witness: three tools before truncation, maxTools = 2, two returned.
C6_Witness ==
    /\ Called /\ options.maxTools = Num(2)
    /\ Len(withDependencies) = 3
    /\ Len(result.tools) = 2
    /\ extractedQuery # <<>>

\* C7: result.messagesProcessed is the length of the messages array of the
\* call, with onlyNewMessages true or false, whatever was discarded.
C7_MessagesProcessed ==
    Called => result.messagesProcessed = Len(options.messages)

\* C7 witness: an incremental call on two messages after a call on one: the
\* window holds one message, and that one is discarded.
C7_Witness ==
    /\ Called /\ options.onlyNewMessages
    /\ previousLength = 1 /\ Len(options.messages) = 2
    /\ ~isNonToolMessage(options.messages[2])
    /\ result.messagesProcessed = 2

\* The query the text extraction gives for a window of messages taken whole.
QueryOf(window) == extractQueryFromMessages(window, FALSE, 0).query

\* C8: with onlyNewMessages true the query is built from the messages at index
\* >= the preceding call's messages.length (0 without one) and from nothing
\* else, so those alone decide which tools pass keyword matching.
C8_OnlyNewWindow ==
    (Called /\ options.onlyNewMessages) =>
        LET window == sliceFrom(options.messages, previousLength)
        IN  /\ extractedQuery = QueryOf(window)
            /\ keywordFiltered = Names(keywordStep(parsedTools, QueryOf(window)))

\* C8 witness: an incremental call whose earlier messages carry text that is
\* not in the query.
C8_Witness ==
    /\ Called /\ options.onlyNewMessages
    /\ previousLength = 1 /\ Len(options.messages) = 2
    /\ QueryOf(SubSeq(options.messages, 1, 1)) # <<>>
    /\ extractedQuery # <<>>
    /\ extractedQuery # QueryOf(options.messages)

\* C9 as stated: when the extracted query is empty, keyword matching is
\* skipped and result.tools is the full construction-time list.
C9_Original ==
    (Called /\ extractedQuery = <<>>) =>
        /\ keywordFiltered = Names(parsedTools)
        /\ result.tools = parsedTools

\* C9 amended: when the extracted query is empty, keyword matching is skipped
\* and result.tools is the full construction-time list, cut to its first
\* maxTools entries when maxTools is set and smaller than the list.
C9_EmptyQueryKeepsAll ==
    (Called /\ extractedQuery = <<>>) =>
        /\ keywordFiltered = Names(parsedTools)
        /\ result.tools =
              IF options.maxTools # Undefined /\ options.maxTools.v < Len(parsedTools)
              THEN SubSeq(parsedTools, 1, options.maxTools.v)
              ELSE parsedTools

\* C9 witness: a conversation of tool responses, tool calls and blank content
\* only; every tool is returned, one with keywords among them.
C9_Witness ==
    /\ Called /\ ~options.onlyNewMessages
    /\ Len(options.messages) = 2
    /\ options.messages[1] # options.messages[2]
    /\ extractedQuery = <<>>
    /\ result.tools = parsedTools
    /\ \E i \in 1..Len(parsedTools) : ~KeywordLess(parsedTools[i])

\* The pairs of tools of the input list that depend on each other.
CircularPairs ==
    {p \in (1..Len(tools)) \X (1..Len(tools)) :
        /\ p[1] # p[2]
        /\ tools[p[2]].name \in Range(InputDependsOn(p[1]))
        /\ tools[p[1]].name \in Range(InputDependsOn(p[2]))}

\* C10 as stated: a circular declaration does not make construction throw,
\* and a filter call in which A or B passes keyword matching returns both.
C10_Original ==
    /\ (phase # "new" /\ CircularPairs # {} /\ UnresolvedPairs = {}) => phase = "ready"
    /\ (Called /\ extractedQuery # <<>>) =>
          \A p \in CircularPairs :
              tools[p[1]].name \in Range(keywordFiltered) =>
                  {tools[p[1]].name, tools[p[2]].name} \subseteq ResultNames

\* C10 amended: a circular declaration does not make construction throw, and
\* a filter call in which A or B passes keyword matching and maxTools cuts
\* nothing off returns both.
C10_CircularDependencies ==
    /\ (phase # "new" /\ CircularPairs # {} /\ UnresolvedPairs = {}) => phase = "ready"
    /\ (Called /\ extractedQuery # <<>> /\ NotTruncated) =>
          \A p \in CircularPairs :
              tools[p[1]].name \in Range(keywordFiltered) =>
                  {tools[p[1]].name, tools[p[2]].name} \subseteq ResultNames

\* C10 witness: of two tools that depend on each other one matched, the other
\* did not, and both are returned.
C10_Witness ==
    /\ Called /\ extractedQuery # <<>> /\ NotTruncated
    /\ \E p \in CircularPairs :
          /\ tools[p[1]].name \in Range(keywordFiltered)
          /\ tools[p[2]].name \notin Range(keywordFiltered)
          /\ {tools[p[1]].name, tools[p[2]].name} \subseteq ResultNames

\* The latest filter call returned a FilterResult (it did not throw).
Returned == Called /\ DOMAIN result = {"tools", "totalOriginalCount", "filteredCount",
                                       "reason", "messagesProcessed"}

\* C11 as stated: on a constructed engine every filter call returns a
\* FilterResult, whatever the messages, maxTools and onlyNewMessages are and
\* whatever configuration construction accepted.
C11_Original == Called => Returned

\* The caller's i-th tool has a block that does not parse as a mapping.
MalformedBlock(i) == tools[i].description.block.kind \in {"invalid", "sequence"}

\* C12 as stated: a tool whose block fails to parse as a mapping does not
\* abort construction, has skip undefined in the engine, and passes keyword
\* matching in every filter call, also when the Tool record supplied a
\* configuration directly.
C12_Original ==
    \A i \in 1..Len(tools) :
        MalformedBlock(i) =>
            /\ phase # "failed"
            /\ phase = "ready" => parsedTools[i].skip = Undefined
            /\ Called => Returned /\ (extractedQuery # <<>> =>
                                         tools[i].name \in Range(keywordFiltered))

\* The block of the caller's i-th tool is a mapping in which the field is
\* present and is no array.
MisShaped(i, field) ==
    /\ tools[i].description.block.kind = "mapping"
    /\ tools[i].description.block.value[field].t \notin {"undefined", "array"}

\* C13 as stated: with depends_on or keywords present and not a sequence,
\* construction and every filter call complete without throwing, and the tool
\* is handled as if the field were not declared: without keywords it passes
\* keyword matching, without depends_on it brings no other tool in.
C13_Original ==
    \A i \in 1..Len(tools) :
        (MisShaped(i, "depends_on") \/ MisShaped(i, "keywords")) =>
            /\ phase # "failed"
            /\ Called => Returned
            /\ (Returned /\ extractedQuery # <<>> /\ MisShaped(i, "keywords")) =>
                  tools[i].name \in Range(keywordFiltered)
            /\ (Returned /\ MisShaped(i, "depends_on")) =>
                  Range(withDependencies) = Range(keywordFiltered)

\* C14 as stated: with onlyNewMessages true on a non-empty history that is at
\* least as long as the preceding call's, the reason reports messages.length
\* minus the preceding call's messages.length as the number of new messages.
C14_Original ==
    (Returned /\ options.onlyNewMessages /\ Len(options.messages) > 0
        /\ Len(options.messages) >= previousLength) =>
        result.reason[1] = << "filtered by keywords from ",
                              Len(options.messages) - previousLength,
                              " ", "new", " messages, dependencies added" >>

\* C15 as stated: result.tools is closed under declared dependencies: every D
\* in depends_on of a tool of result.tools is in result.tools too.
C15_Original ==
    Returned =>
        \A i \in 1..Len(result.tools) :
            Range(DeclaredDependsOn(result.tools[i])) \subseteq ResultNames

\* C15 amended: when maxTools cuts nothing off, every D in depends_on of a
\* tool of result.tools that passed the keyword step is in result.tools; a
\* tool that is there only as a dependency need not have its own there.
C15_DependencyClosure ==
    (Returned /\ NotTruncated) =>
        \A i \in 1..Len(result.tools) :
            result.tools[i].name \in Range(keywordFiltered) =>
                Range(DeclaredDependsOn(result.tools[i])) \subseteq ResultNames

\* C15 witness: nothing cut off; a matched tool is returned with its
\* dependency, and that dependency's own dependency is not returned.
C15_Witness ==
    /\ Returned /\ NotTruncated /\ extractedQuery # <<>>
    /\ \E i, j \in 1..Len(result.tools) :
          /\ result.tools[i].name \in Range(keywordFiltered)
          /\ result.tools[j].name \notin Range(keywordFiltered)
          /\ result.tools[j].name \in Range(DeclaredDependsOn(result.tools[i]))
          /\ Range(DeclaredDependsOn(result.tools[i])) \subseteq ResultNames
          /\ ~(Range(DeclaredDependsOn(result.tools[j])) \subseteq ResultNames)

\* C16: lastProcessedMessageCount is 0 until the first filter call and from
\* then on the length of the latest call's messages array, whatever
\* onlyNewMessages and maxTools were and also when that array is shorter than
\* the one before; getAllTools and getCleanDescriptions leave it alone.
C16_CountTracksLatestCall ==
    /\ phase \in {"new", "ready"} =>
          lastProcessedMessageCount = IF options.called THEN Len(options.messages) ELSE 0
    /\ (phase = "ready" /\ options.called /\ "thrown" \notin DOMAIN result) =>
          lastProcessedMessageCount = result.messagesProcessed

\* C16 witness: an accessor has run, and the latest call, incremental and
\* with maxTools, came with a shorter history than the call before it.
C16_Witness ==
    /\ Returned /\ returned # Undefined
    /\ options.onlyNewMessages /\ options.maxTools = Num(1)
    /\ previousLength = 2 /\ Len(options.messages) = 1
    /\ lastProcessedMessageCount = 1

\* The reason of the latest call has a 'limited to <maxTools> tools' part.
ReasonHasLimit ==
    \E k \in 1..Len(result.reason) : result.reason[k][1] = "limited to "

\* C17 as stated: the reason contains 'limited to <maxTools> tools' exactly
\* when maxTools is set and the list after dependency expansion was longer
\* than maxTools.
C17_Original ==
    Returned =>
        (ReasonHasLimit <=>
            (Truthy(options.maxTools) /\ Len(withDependencies) > options.maxTools.v))

\* A message the text extraction discards: role 'tool', or an assistant
\* message with a tool_calls marker.
Discarded(msg) ==
    \/ msg.role = "tool"
    \/ msg.role = "assistant" /\ msg.tool_calls # Undefined

\* What the content of a discarded message is replaced with.
OtherContents ==
    {Undefined, Str(<<>>), Str(TextReadFiles),
     Arr(<< [type |-> "text", text |-> KeywordFile] >>)}

\* The history with the content of every discarded message replaced.
WithDiscardedContent(messages, content) ==
    [i \in 1..Len(messages) |->
        IF Discarded(messages[i]) THEN [messages[i] EXCEPT !.content = content]
        ELSE messages[i]]

\* C18: the content of role-'tool' messages and of assistant messages with
\* tool_calls does not influence result.tools: the call returns the tools the
\* same call returns on the history in which those contents are replaced.
C18_DiscardedContentIgnored ==
    Returned =>
        \A content \in OtherContents :
            LET other == WithDiscardedContent(options.messages, content)
                query == extractQueryFromMessages(other, options.onlyNewMessages,
                                                  previousLength).query
            IN  result.tools =
                    limitTools(addDependencies(keywordStep(parsedTools, query), parsedTools),
                               options.maxTools)

\* C18 witness: the first call of an engine; the history holds a discarded
\* message whose content names a keyword of a tool that is not returned.
C18_Witness ==
    /\ Returned /\ previousLength = 0 /\ extractedQuery # <<>>
    /\ \E i \in 1..Len(options.messages) :
          /\ Discarded(options.messages[i])
          /\ options.messages[i].role = "assistant"
          /\ \E j \in 1..Len(parsedTools) :
                /\ parsedTools[j].name \notin ResultNames
                /\ ~KeywordLess(parsedTools[j])
                /\ \E k \in 1..Len(keywordsOf(parsedTools[j]).v) :
                      includes(toLowerCase(options.messages[i].content.v),
                               toLowerCase(keywordsOf(parsedTools[j]).v[k]))

\* The whitespace-delimited words of a text: its maximal runs of characters
\* that are not whitespace.
WordsOf(text) ==
    { SubSeq(text, i, j) : i \in 1..Len(text), j \in 1..Len(text) } \cap
    { SubSeq(text, p[1], p[2]) :
        p \in { q \in (1..Len(text)) \X (1..Len(text)) :
                  /\ q[1] <= q[2]
                  /\ \A k \in q[1]..q[2] : text[k] \notin Whitespace
                  /\ q[1] = 1 \/ text[q[1] - 1] \in Whitespace
                  /\ q[2] = Len(text) \/ text[q[2] + 1] \in Whitespace } }

\* a occurs in b as a run of consecutive characters.
OccursIn(a, b) == \E i \in 1..(Len(b) - Len(a) + 1) : \A k \in 1..Len(a) : b[i + k - 1] = a[k]

\* a is a prefix of b.
PrefixOf(a, b) == Len(a) <= Len(b) /\ \A k \in 1..Len(a) : b[k] = a[k]

\* The match of one keyword as the claim words it, letter case apart.
KeywordMatchesQuery(keyword, query) ==
    LET k == toLowerCase(keyword)
        q == toLowerCase(query)
    IN  \/ OccursIn(k, q)
        \/ \E word \in WordsOf(q) :
              /\ Len(word) > 2
              /\ OccursIn(k, word) \/ OccursIn(word, k) \/ PrefixOf(word, k) \/ PrefixOf(k, word)

\* C19: with a non-empty query, a tool with a non-empty keyword list passes
\* keyword matching exactly when one of its keywords matches: the lower-cased
\* query contains the lower-cased keyword, or a query word longer than 2
\* characters contains it, is contained in it, is a prefix of it or has it as
\* a prefix; when no query word is longer than 2, only the whole-query rule
\* decides.
C19_KeywordMatching ==
    (Returned /\ extractedQuery # <<>>) =>
        \A i \in 1..Len(parsedTools) :
            ~KeywordLess(parsedTools[i]) =>
                LET kws == keywordsOf(parsedTools[i]).v
                    passed == parsedTools[i].name \in Range(keywordFiltered)
                IN  /\ passed <=> \E k \in 1..Len(kws) :
                                      KeywordMatchesQuery(kws[k], extractedQuery)
                    /\ (\A word \in WordsOf(extractedQuery) : Len(word) <= 2) =>
                          (passed <=> \E k \in 1..Len(kws) :
                                         OccursIn(toLowerCase(kws[k]),
                                                  toLowerCase(extractedQuery)))

\* C19 witness: a tool with two keywords passes although the query contains
\* neither: a query word longer than 2 is contained in the second keyword,
\* next to a word of length 2 that is contained in it as well.
C19_Witness ==
    /\ Returned
    /\ parsedTools[1].name \in Range(keywordFiltered)
    /\ Len(keywordsOf(parsedTools[1]).v) = 2
    /\ \A k \in 1..2 : ~OccursIn(toLowerCase(keywordsOf(parsedTools[1]).v[k]),
                                 toLowerCase(extractedQuery))
    /\ ~KeywordMatchesQuery(keywordsOf(parsedTools[1]).v[1], extractedQuery)
    /\ \E word \in WordsOf(extractedQuery) : Len(word) = 2

\* C20: result.tools holds tools of the construction-time list only and no
\* name twice, filteredCount is its length, totalOriginalCount the number of
\* tools handed to the constructor; the engine's list, and what getAllTools
\* returns, is the construction-time list before and after any filter calls.
C20_ResultWellFormed ==
    /\ phase = "ready" => parsedTools = parseTools(tools)
    /\ (returned # Undefined /\ returned.call = "getAllTools") =>
          returned.value = parseTools(tools)
    /\ Returned =>
          /\ \A i \in 1..Len(result.tools) : result.tools[i] \in Range(parseTools(tools))
          /\ \A i, j \in 1..Len(result.tools) :
                result.tools[i].name = result.tools[j].name => i = j
          /\ result.filteredCount = Len(result.tools)
          /\ result.totalOriginalCount = Len(tools)

\* C20 witness: getAllTools has returned after at least two filter calls, the
\* latest of which returned one of two tools.
C20_Witness ==
    /\ Returned /\ previousLength > 0
    /\ returned # Undefined /\ returned.call = "getAllTools"
    /\ Len(tools) = 2 /\ Len(result.tools) = 1

\* C21: on a history that only grows by appending, with every call passing
\* onlyNewMessages: true, the windows partition the history: every message
\* was in the window of exactly one call, the first call whose history holds
\* it (the call before that one had a history too short for it).
C21_WindowsPartition ==
    (phase = "ready" /\ options.called) =>
        /\ Len(scans) = Len(options.messages)
        /\ \A i \in 1..Len(scans) :
              /\ Len(scans[i]) = 1
              /\ scans[i][1].after < i
              /\ i <= scans[i][1].length

\* C21 witness: a call on one message, then a call on two in which the second
\* is new and carries text; each message was scanned by its own call.
C21_Witness ==
    /\ Returned /\ Len(options.messages) = 2
    /\ Len(scans) = 2
    /\ scans[1] = <<[length |-> 1, after |-> 0]>>
    /\ scans[2] = <<[length |-> 2, after |-> 1]>>
    /\ QueryOf(SubSeq(options.messages, 1, 1)) # <<>>
    /\ extractedQuery = QueryOf(SubSeq(options.messages, 2, 2))
    /\ extractedQuery # QueryOf(options.messages)

\* The FilterResult of the first call of an engine with the same tools.
FreshResult(messages, maxTools) ==
    LET opts     == FilterOptions(messages, maxTools, FALSE)
        query    == extractQueryFromMessages(messages, FALSE, 0).query
        limited  == limitTools(addDependencies(keywordStep(parsedTools, query), parsedTools),
                               maxTools)
    IN  [tools              |-> limited,
         totalOriginalCount |-> Len(parsedTools),
         filteredCount      |-> Len(limited),
         reason             |-> generateFilterReason(opts, Len(limited), 0),
         messagesProcessed  |-> Len(messages)]

\* C22: a call with onlyNewMessages false returns what the first call of a
\* fresh engine returns for the same messages and maxTools (tools,
\* filteredCount, reason, messagesProcessed), whatever calls preceded it.
C22_HistoryIndependent ==
    (Returned /\ ~options.onlyNewMessages) =>
        result = FreshResult(options.messages, options.maxTools)

\* C22 witness: a call without onlyNewMessages, after a call on two messages,
\* on a history of two messages with text in the first only.
C22_Witness ==
    /\ Returned /\ ~options.onlyNewMessages
    /\ previousLength = 2 /\ Len(options.messages) = 2
    /\ extractedQuery # <<>>
    /\ QueryOf(SubSeq(options.messages, 2, 2)) = <<>>
    /\ result.reason[1][2] = 2

=============================================================================
